---- MODULE Spec2Model ----
(***************************************************************************)
(* Diff normalisation and highlight composition of tuicr.                  *)
(*                                                                         *)
(*   src/git/diff.rs      get_working_tree_diff, get_commit_range_diff,    *)
(*                        parse_diff, parse_hunks                          *)
(*   src/syntax/mod.rs    SyntaxHighlighter::highlight_file_lines,         *)
(*                        get_syntax, apply_diff_background                *)
(*                                                                         *)
(* Text is a sequence of one-character strings.  Option<T> is a sequence   *)
(* of length at most one: None is <<>> and Some(x) is <<x>>.               *)
(***************************************************************************)
EXTENDS Integers, Sequences, FiniteSets, TLC

VARIABLES repo, call, backend, diff, result, hl_calls, overlay, gap, session, panel

vars == <<repo, call, backend, diff, result, hl_calls, overlay, gap, session, panel>>

None == <<>>
Some(x) == <<x>>

\* ------------------------------------------------------------------ bounds

\* longest commit-id list handed to get_commit_range_diff
MaxIds == 2
\* most deltas in a backend diff handed directly to parse_diff
MaxDeltas == 2
\* most hunks in a delta of a backend diff handed directly to parse_diff
MaxHunks == 2
\* most spans in a span sequence handed directly to apply_diff_background
MaxSpans == 2
\* most comment anchors created in a session
MaxAnchors == 2
\* most characters in the comment buffer
MaxChars == 3
\* how far past the end of the buffer the cursor can be
MaxPast == 2

\* ------------------------------------------------------------- characters

LF == "\n"
CR == "\r"
\* a byte that is not valid UTF-8, and what from_utf8_lossy puts in its place
BadByte == "0xFF"
Replacement == "U+FFFD"

\* ------------------------------------------------------------ sequences

RECURSIVE Flatten(_)
Flatten(ss) == IF ss = <<>> THEN <<>> ELSE Head(ss) \o Flatten(Tail(ss))

RECURSIVE CountIn(_, _)
\* how many elements of the sequence s lie in the set S
CountIn(s, S) ==
    IF s = <<>> THEN 0
    ELSE (IF Head(s) \in S THEN 1 ELSE 0) + CountIn(Tail(s), S)

SeqsUpTo(S, n) == UNION { [1..k -> S] : k \in 0..n }

\* ------------------------------------------------ text conversions (diff.rs)

\* String::from_utf8_lossy: every invalid byte becomes U+FFFD
from_utf8_lossy(bytes) ==
    [i \in 1..Len(bytes) |-> IF bytes[i] = BadByte THEN Replacement ELSE bytes[i]]

RECURSIVE trim_end_matches(_, _)
\* str::trim_end_matches(c): strips every trailing occurrence of c
trim_end_matches(s, c) ==
    IF s # <<>> /\ s[Len(s)] = c
    THEN trim_end_matches(SubSeq(s, 1, Len(s) - 1), c)
    ELSE s

\* the content of a DiffLine: lossy decode, strip trailing LFs, then CRs
LineContent(bytes) ==
    trim_end_matches(trim_end_matches(from_utf8_lossy(bytes), LF), CR)

\* ------------------------------------------------ origin and status mapping

\* The backend's line origin markers are '+' (addition), '-' (deletion),
\* ' ' (context) and the end-of-file-newline markers '=' (context), '>' (add)
\* and '<' (delete).
LineOriginOf(marker) ==
    CASE marker = "+" -> "Addition"
      [] marker = "-" -> "Deletion"
      [] marker = " " -> "Context"
      [] OTHER -> "Context"

\* git2::Delta
Deltas == {"Unmodified", "Added", "Deleted", "Modified", "Renamed", "Copied",
           "Ignored", "Untracked", "Typechange", "Unreadable", "Conflicted"}

\* as FileStatusOf, with Untracked left to the catch-all arm
FileStatusOfNoUntracked(delta_status) ==
    CASE delta_status = "Added" -> "Added"
      [] delta_status = "Deleted" -> "Deleted"
      [] delta_status = "Modified" -> "Modified"
      [] delta_status = "Renamed" -> "Renamed"
      [] delta_status = "Copied" -> "Copied"
      [] OTHER -> "Modified"

FileStatusOf(delta_status) ==
    CASE delta_status \in {"Added", "Untracked"} -> "Added"
      [] delta_status = "Deleted" -> "Deleted"
      [] delta_status = "Modified" -> "Modified"
      [] delta_status = "Renamed" -> "Renamed"
      [] delta_status = "Copied" -> "Copied"
      [] OTHER -> "Modified"

\* ------------------------------------------------- styles (syntax/mod.rs)

\* Color::Rgb(r, g, b)
Rgb(r, g, b) == <<r, g, b>>

\* SyntaxHighlighter::default: the diff background colours
add_bg == Rgb(0, 35, 12)
del_bg == Rgb(45, 0, 0)

\* ratatui Style::default()
DefaultStyle == [fg |-> None, bg |-> None, add_modifier |-> {}, sub_modifier |-> {}]

\* Style::fg, Style::bg, Style::add_modifier
StyleFg(style, c) == [style EXCEPT !.fg = Some(c)]
StyleBg(style, c) == [style EXCEPT !.bg = Some(c)]
StyleAddModifier(style, m) ==
    [style EXCEPT !.add_modifier = @ \cup {m}, !.sub_modifier = @ \ {m}]

\* the conversion of one syntect style to a ratatui style
ConvertStyle(style) ==
    LET s0 == StyleFg(DefaultStyle, Rgb(style.foreground.r, style.foreground.g,
                                        style.foreground.b))
        s1 == IF "BOLD" \in style.font_style THEN StyleAddModifier(s0, "BOLD") ELSE s0
        s2 == IF "ITALIC" \in style.font_style THEN StyleAddModifier(s1, "ITALIC") ELSE s1
        s3 == IF "UNDERLINE" \in style.font_style
              THEN StyleAddModifier(s2, "UNDERLINED") ELSE s2
    IN s3

\* ----------------------------------------------- paths and grammar lookup

\* a path is its file stem and its optional extension
P_rs == [stem |-> "a", ext |-> Some("rs")]
P_make == [stem |-> "Makefile", ext |-> None]
P_notes == [stem |-> "notes", ext |-> None]
Paths == {P_rs, P_make, P_notes}

\* SyntaxSet::find_syntax_by_extension and find_syntax_by_name of the
\* default syntax set, restricted to the paths of the model
find_syntax_by_extension(ext) == IF ext = "rs" THEN Some("Rust") ELSE None
find_syntax_by_name(name) == IF name = <<"Makefile">> THEN Some("Makefile") ELSE None

\* Path::file_name: the stem, followed by the extension if there is one
file_name(path) == <<path.stem>> \o path.ext

get_syntax(file_path) ==
    IF file_path.ext # None /\ find_syntax_by_extension(file_path.ext[1]) # None
    THEN find_syntax_by_extension(file_path.ext[1])
    ELSE find_syntax_by_name(file_name(file_path))

\* --------------------------------------------------------- the tokenizer

\* syntect styles the theme hands out, by position of the token in its line
SyntectStyles ==
    << [foreground |-> [r |-> 211, g |-> 208, b |-> 200], font_style |-> {}],
       [foreground |-> [r |-> 204, g |-> 153, b |-> 204], font_style |-> {"BOLD"}],
       [foreground |-> [r |-> 116, g |-> 115, b |-> 105],
        font_style |-> {"ITALIC", "UNDERLINE"}] >>

SyntectStyleAt(k) == SyntectStyles[((k - 1) % Len(SyntectStyles)) + 1]

\* HighlightLines::highlight_line on success: the line cut into consecutive
\* ranges that cover it, each with a style.  tok.cut says where the grammar
\* cuts: "whole" (one token), "chars" (one token per character), "head"
\* (the first character, then the rest).
Tokens(tok, line) ==
    IF line = <<>> THEN <<>>
    ELSE CASE tok.cut = "whole" -> << [style |-> SyntectStyleAt(1), text |-> line] >>
           [] tok.cut = "chars" ->
                [k \in 1..Len(line) |-> [style |-> SyntectStyleAt(k), text |-> <<line[k]>>]]
           [] OTHER ->
                IF Len(line) = 1
                THEN << [style |-> SyntectStyleAt(1), text |-> line] >>
                ELSE << [style |-> SyntectStyleAt(1), text |-> <<line[1]>>],
                        [style |-> SyntectStyleAt(2), text |-> Tail(line)] >>

\* HighlightLines::highlight_line returns Err on the lines in tok.fail
TokenizerFails(tok, line) == line \in tok.fail

\* ------------------------------------------ SyntaxHighlighter (syntax/mod.rs)

\* the spans of one line: every (style, text) range converted
\* as LineSpans, with the loop over the ranges stopping one short
LineSpansOneShort(tok, line) ==
    [k \in 1..(Len(Tokens(tok, line)) - (IF Len(Tokens(tok, line)) > 1 THEN 1 ELSE 0)) |->
        [style |-> ConvertStyle(Tokens(tok, line)[k].style),
         text |-> Tokens(tok, line)[k].text]]

LineSpans(tok, line) ==
    LET ranges == Tokens(tok, line)
    IN [k \in 1..Len(ranges) |->
            [style |-> ConvertStyle(ranges[k].style), text |-> ranges[k].text]]

\* None without a grammar or when the tokenizer fails on any line,
\* otherwise Some(one span sequence per line)
\* as highlight_file_lines, with a line the tokenizer fails on given no spans
\* instead of ending the call
highlight_file_lines_skip(tok, file_path, lines) ==
    IF get_syntax(file_path) = None THEN None
    ELSE Some([i \in 1..Len(lines) |->
                IF TokenizerFails(tok, lines[i]) THEN <<>> ELSE LineSpans(tok, lines[i])])

highlight_file_lines(tok, file_path, lines) ==
    IF get_syntax(file_path) = None THEN None
    ELSE IF \E i \in 1..Len(lines) : TokenizerFails(tok, lines[i]) THEN None
    ELSE Some([i \in 1..Len(lines) |-> LineSpans(tok, lines[i])])

\* as apply_diff_background, with Context lines painted like additions
apply_diff_background_all(spans, origin) ==
    [k \in 1..Len(spans) |->
        [style |-> StyleBg(spans[k].style, IF origin = "Deletion" THEN del_bg ELSE add_bg),
         text |-> spans[k].text]]

apply_diff_background(spans, origin) ==
    IF origin = "Context" THEN spans
    ELSE LET bg_color == IF origin = "Addition" THEN add_bg ELSE del_bg
         IN [k \in 1..Len(spans) |->
                 [style |-> StyleBg(spans[k].style, bg_color), text |-> spans[k].text]]

\* ------------------------------------------- the backend: hunks and lines

\* the bytes of the backend's "\ No newline at end of file" line
NoNewlineMsg == <<LF, "\\", LF>>

RECURSIVE Advance(_, _, _)
\* how far the backend's line counter of one side has moved over the first
\* n lines: every line whose marker is in `side` moves it by its LF count
Advance(marked, n, side) ==
    IF n = 0 THEN 0
    ELSE Advance(marked, n - 1, side)
         + (IF marked[n].origin \in side THEN CountIn(marked[n].content, {LF}) ELSE 0)

\* A backend hunk over the marked lines (origin marker, raw bytes).  The
\* header counts are the numbers of old-side and new-side lines; the
\* end-of-file markers count on neither side.  The line numbers are the
\* backend's running counters: an addition and a deleted-EOF-newline marker
\* have no old number, a deletion and an added-EOF-newline marker no new one.
HunkRecord(old_start, old_lines, new_start, new_lines, marked) ==
    [header |-> <<"@@", "-", ToString(old_start), ToString(old_lines), "+",
                  ToString(new_start), ToString(new_lines), "@@", LF>>,
     old_start |-> old_start,
     old_lines |-> old_lines,
     new_start |-> new_start,
     new_lines |-> new_lines,
     lines |-> [i \in 1..Len(marked) |->
        [origin |-> marked[i].origin,
         content |-> marked[i].content,
         old_lineno |-> IF marked[i].origin \in {"+", "<"} THEN None
                        ELSE Some(old_start + Advance(marked, i - 1, {"-", ">", " ", "="})),
         new_lineno |-> IF marked[i].origin \in {"-", ">"} THEN None
                        ELSE Some(new_start + Advance(marked, i - 1, {"+", "<", " ", "="}))]]]

BackendHunk(old_start, new_start, marked) ==
    HunkRecord(old_start,
               CountIn([i \in 1..Len(marked) |-> marked[i].origin], {"-", " "}),
               new_start,
               CountIn([i \in 1..Len(marked) |-> marked[i].origin], {"+", " "}),
               marked)

\* one side of a delta
DiffFileSide(path, is_binary) == [path |-> path, is_binary |-> is_binary]

\* a backend delta with the hunks its patch holds
BackendDelta(status, old_file, new_file, hunks) ==
    [status |-> status, old_file |-> old_file, new_file |-> new_file, hunks |-> hunks]

\* ------------------------------------------------- the backend: line diffs

\* a blob is the sequence of its lines, each with its terminator
B_empty == <<>>
B_one == << <<"a", LF>> >>
B_two == << <<"a", LF>>, <<"b", LF>> >>
B_nonl == << <<"a", LF>>, <<"b">> >>
B_crlf == << <<"b", CR, LF>>, <<"a", LF>> >>

RECURSIVE CommonPrefix(_, _)
CommonPrefix(x, y) ==
    IF x = <<>> \/ y = <<>> \/ Head(x) # Head(y) THEN 0
    ELSE 1 + CommonPrefix(Tail(x), Tail(y))

Reverse(x) == [i \in 1..Len(x) |-> x[Len(x) + 1 - i]]

\* a line with its marker, followed by the end-of-file marker line when the
\* line has no terminator
MarkedLine(marker, bytes) ==
    IF bytes # <<>> /\ bytes[Len(bytes)] = LF
    THEN << [origin |-> marker, content |-> bytes] >>
    ELSE << [origin |-> marker, content |-> bytes],
            [origin |-> (CASE marker = "+" -> "<" [] marker = "-" -> ">" [] OTHER -> "="),
             content |-> NoNewlineMsg] >>

MarkedLines(marker, blob) ==
    Flatten([i \in 1..Len(blob) |-> MarkedLine(marker, blob[i])])

\* the hunk of a patch whose lines are the marked lines, if there are any
WholeFileHunk(old, new, marked) ==
    IF marked = <<>> THEN <<>>
    ELSE << BackendHunk(IF old = <<>> THEN 0 ELSE 1, IF new = <<>> THEN 0 ELSE 1, marked) >>

\* the patch between two blobs that share their first p lines and, after
\* those, their last s lines: the common prefix as context, the old middle
\* deleted, the new middle added, the common suffix as context
LineDiffAt(old, new, p, s) ==
    WholeFileHunk(old, new,
        MarkedLines(" ", SubSeq(old, 1, p))
        \o MarkedLines("-", SubSeq(old, p + 1, Len(old) - s))
        \o MarkedLines("+", SubSeq(new, p + 1, Len(new) - s))
        \o MarkedLines(" ", SubSeq(old, Len(old) - s + 1, Len(old))))

LineDiffFrom(old, new, p) ==
    LineDiffAt(old, new, p,
               CommonPrefix(Reverse(SubSeq(old, p + 1, Len(old))),
                            Reverse(SubSeq(new, p + 1, Len(new)))))

LineDiff(old, new) == LineDiffFrom(old, new, CommonPrefix(old, new))

\* ------------------------------------------------- the backend: tree diffs

\* the order in which the backend walks paths
PathOrder == <<P_make, P_rs, P_notes>>

\* a tree maps every path to its blob, if the path is in the tree
EmptyTree == [p \in Paths |-> None]
Tree(make, rs, notes) ==
    [p \in Paths |-> IF p = P_make THEN make ELSE IF p = P_rs THEN rs ELSE notes]

\* the delta of one path between two trees, if the path differs; status is
\* what the backend reports for a path that only the new side has
PathDelta(p, old, new, added_status) ==
    IF old = new THEN <<>>
    ELSE << BackendDelta(
              (IF old = None THEN added_status ELSE IF new = None THEN "Deleted" ELSE "Modified"),
              DiffFileSide(Some(p), FALSE),
              DiffFileSide(Some(p), FALSE),
              LineDiff(IF old = None THEN <<>> ELSE old[1],
                       IF new = None THEN <<>> ELSE new[1])) >>

\* the deltas between two trees, path by path in the backend's order
TreeDeltas(old, new, untracked) ==
    Flatten([i \in 1..Len(PathOrder) |->
                PathDelta(PathOrder[i], old[PathOrder[i]], new[PathOrder[i]],
                          IF PathOrder[i] \in untracked THEN "Untracked" ELSE "Added")])

\* Repository::diff_tree_to_tree; no tree stands for the empty tree
diff_tree_to_tree(old_tree, new_tree) ==
    TreeDeltas(IF old_tree = None THEN EmptyTree ELSE old_tree[1], new_tree[1], {})

\* Repository::diff_tree_to_workdir_with_index with untracked files
\* included: a path only the working directory has is Untracked unless it
\* is in the index
diff_tree_to_workdir_with_index(old_tree, workdir, untracked) ==
    TreeDeltas(old_tree[1], workdir, untracked)

\* ------------------------------------------------------ parse_hunks (diff.rs)

Whitespace == {" ", LF, CR, "\t"}

RECURSIVE TrimStart(_)
TrimStart(s) == IF s # <<>> /\ Head(s) \in Whitespace THEN TrimStart(Tail(s)) ELSE s

RECURSIVE TrimEnd(_)
TrimEnd(s) ==
    IF s # <<>> /\ s[Len(s)] \in Whitespace THEN TrimEnd(SubSeq(s, 1, Len(s) - 1)) ELSE s

\* str::trim
Trim(s) == TrimEnd(TrimStart(s))

\* Vec::get(line_idx) on the highlighted lines (line_idx counts from 1 here)
SpansOfLine(all_highlighted, line_idx) ==
    IF line_idx <= Len(all_highlighted) THEN Some(all_highlighted[line_idx]) ELSE None

\* the highlighted spans of the DiffLine at line_idx
HighlightedSpans(highlighted_lines, line_idx, origin) ==
    IF highlighted_lines # None /\ SpansOfLine(highlighted_lines[1], line_idx) # None
    THEN Some(apply_diff_background(SpansOfLine(highlighted_lines[1], line_idx)[1], origin))
    ELSE None

\* the DiffHunk of a backend hunk, given its line contents and origins and
\* the highlighter's answer for them
DiffHunkOf(hunk, line_contents, line_origins, highlighted_lines) ==
    [header |-> Trim(from_utf8_lossy(hunk.header)),
     lines |-> [i \in 1..Len(hunk.lines) |->
        [origin |-> line_origins[i],
         content |-> line_contents[i],
         old_lineno |-> hunk.lines[i].old_lineno,
         new_lineno |-> hunk.lines[i].new_lineno,
         highlighted_spans |-> HighlightedSpans(highlighted_lines, i, line_origins[i])]],
     old_start |-> hunk.old_start,
     old_count |-> hunk.old_lines,
     new_start |-> hunk.new_start,
     new_count |-> hunk.new_lines]

\* the second half of the loop body: the DiffHunk, and the record of the
\* highlighter invocation if one was made
HighlightedHunk(hunk, file_path, line_contents, line_origins, highlighted_lines) ==
    [hunk |-> DiffHunkOf(hunk, line_contents, line_origins, highlighted_lines),
     calls |-> IF file_path # None
               THEN << [file_path |-> file_path[1], lines |-> line_contents,
                        ret |-> highlighted_lines] >>
               ELSE <<>>]

\* the highlighter is asked once the contents are collected, if there is a path
HighlightHunk(hunk, file_path, tok, line_contents, line_origins) ==
    HighlightedHunk(hunk, file_path, line_contents, line_origins,
                    IF file_path # None
                    THEN highlight_file_lines(tok, file_path[1], line_contents)
                    ELSE None)

\* The body of the loop over the hunks of a patch, for one backend hunk:
\* the DiffHunk built from it and the highlighter invocation made for it.
ParseHunk(hunk, file_path, tok) ==
    HighlightHunk(hunk, file_path, tok,
                  [i \in 1..Len(hunk.lines) |-> LineContent(hunk.lines[i].content)],
                  [i \in 1..Len(hunk.lines) |-> LineOriginOf(hunk.lines[i].origin)])

\* Whether a backend call of parse_hunks fails for a delta with n hunks.
\* fault_h is None, or Some of the place: once h hunks are done, either
\* before the highlighter is asked about the next hunk (Patch::from_diff for
\* h = 0, Patch::hunk or an accessor of the first loop over the lines), or
\* late, in the second loop over the lines of the next hunk.
BackendFails(fault_h, n) ==
    /\ fault_h # None
    /\ IF fault_h[1].late THEN fault_h[1].h < n
       ELSE fault_h[1].h = 0 \/ fault_h[1].h < n

\* the hunks whose highlighter invocation is made before parse_hunks returns
HunksReached(fault_h, n) ==
    IF BackendFails(fault_h, n)
    THEN fault_h[1].h + (IF fault_h[1].late THEN 1 ELSE 0)
    ELSE n

\* what parse_hunks returns once `parsed` holds the hunks it got to
HunksResult(fails, n, parsed) ==
    [err |-> fails,
     hunks |-> IF fails THEN <<>> ELSE [h \in 1..n |-> parsed[h].hunk],
     calls |-> Flatten([h \in 1..Len(parsed) |-> parsed[h].calls])]

\* parse_hunks: the hunks of one delta, or the backend's error; with the
\* highlighter invocations made on the way
parse_hunks(delta, file_path, tok, fault_h) ==
    HunksResult(BackendFails(fault_h, Len(delta.hunks)),
                Len(delta.hunks),
                [h \in 1..HunksReached(fault_h, Len(delta.hunks)) |->
                    ParseHunk(delta.hunks[h], file_path, tok)])

\* ------------------------------------------------------- parse_diff (diff.rs)

Pending == [tag |-> "Pending", err |-> "", files |-> <<>>]
Ok(files) == [tag |-> "Ok", err |-> "", files |-> files]
Err(kind) == [tag |-> "Err", err |-> kind, files |-> <<>>]

\* new_path.as_ref().or(old_path.as_ref())
\* as FilePath, with the old path preferred
FilePathOldFirst(old_path, new_path) == IF old_path # None THEN old_path ELSE new_path

FilePath(old_path, new_path) == IF new_path # None THEN new_path ELSE old_path

\* as IsBinary, with both sides required to be binary
IsBinaryBoth(delta) == delta.old_file.is_binary /\ delta.new_file.is_binary

IsBinary(delta) == delta.old_file.is_binary \/ delta.new_file.is_binary

\* the hunks of a delta: none for a binary one, else what parse_hunks gives
FileHunks(delta, is_binary, tok, fault_h) ==
    IF is_binary
    THEN [err |-> FALSE, hunks |-> <<>>, calls |-> <<>>]
    ELSE parse_hunks(delta, FilePath(delta.old_file.path, delta.new_file.path), tok, fault_h)

\* the DiffFile pushed for a delta, with the outcome of its parse_hunks
PushFile(delta, is_binary, parsed) ==
    [err |-> parsed.err,
     calls |-> parsed.calls,
     file |-> [old_path |-> delta.old_file.path,
               new_path |-> delta.new_file.path,
               status |-> FileStatusOf(delta.status),
               hunks |-> parsed.hunks,
               is_binary |-> is_binary]]

\* the body of the loop over the deltas, for the delta at index delta_idx
ParseDelta(deltas, delta_idx, tok, fault) ==
    PushFile(deltas[delta_idx], IsBinary(deltas[delta_idx]),
             FileHunks(deltas[delta_idx], IsBinary(deltas[delta_idx]), tok,
                       IF fault # None /\ fault[1].d = delta_idx THEN fault ELSE None))

\* the end of parse_diff: the first failed delta aborts the build, no file
\* at all is NoChanges
\* as DiffResult, without the check for an empty file list
DiffResultNoCheck(parsed, failed) ==
    [result |-> IF failed # {} THEN Err("Backend")
                ELSE Ok([i \in 1..Len(parsed) |-> parsed[i].file]),
     calls |-> Flatten([i \in 1..(IF failed = {} THEN Len(parsed)
                                  ELSE CHOOSE i \in failed : \A j \in failed : i <= j) |->
                            parsed[i].calls])]

DiffResult(parsed, failed) ==
    [result |-> IF failed # {} THEN Err("Backend")
                ELSE IF parsed = <<>> THEN Err("NoChanges")
                ELSE Ok([i \in 1..Len(parsed) |-> parsed[i].file]),
     calls |-> Flatten([i \in 1..(IF failed = {} THEN Len(parsed)
                                  ELSE CHOOSE i \in failed : \A j \in failed : i <= j) |->
                            parsed[i].calls])]

CollectFiles(parsed) == DiffResult(parsed, { i \in 1..Len(parsed) : parsed[i].err })

\* parse_diff: the result and the highlighter invocations of the build
parse_diff(deltas, tok, fault) ==
    CollectFiles([i \in 1..Len(deltas) |-> ParseDelta(deltas, i, tok, fault)])

\* ------------------------------------------------- the repository (git2)

\* Oid::from_str accepts the well-formed ids; find_commit finds the commits
\* of the repository.  "zz" is malformed, "c9" names no commit.
CommitIds == {"c1", "c2", "c3", "c4"}
WellFormedIds == CommitIds \cup {"c9"}
IdArgs == CommitIds \cup {"c9", "zz"}

\* the commit graph: c1 and c2 have no parent, c3 follows c1, c4 merges c3
\* and c2
ParentsOf(id) ==
    CASE id = "c3" -> <<"c1">>
      [] id = "c4" -> <<"c3", "c2">>
      [] OTHER -> <<>>

Commits(t1, t2, t3, t4) ==
    [id \in CommitIds |->
        [parents |-> ParentsOf(id),
         tree |-> CASE id = "c1" -> t1 [] id = "c2" -> t2 [] id = "c3" -> t3 [] OTHER -> t4]]

\* ------------------------------------------- the entry points (diff.rs)

\* the Diff object handed to parse_diff, with the trees it was made from
DiffOf(source, old_tree, new_tree, deltas) ==
    [source |-> source, old_tree |-> old_tree, new_tree |-> new_tree, deltas |-> deltas]

\* the backend call that makes the Diff fails
DiffCallFails(fault) == fault # None /\ fault[1].d = 0

Outcome(d, r, calls) == [diff |-> d, result |-> r, calls |-> calls]

Parsed(d, parsed) == Outcome(Some(d), parsed.result, parsed.calls)

ParseOutcome(d, be) == Parsed(d, parse_diff(d.deltas, be.tok, be.fault))

get_working_tree_diff(r, be) ==
    IF r.head = None THEN Outcome(None, Err("Backend"), <<>>)
    ELSE IF DiffCallFails(be.fault) THEN Outcome(None, Err("Backend"), <<>>)
    ELSE ParseOutcome(
            DiffOf("tree_to_workdir", r.head, Some(r.workdir),
                   diff_tree_to_workdir_with_index(r.head, r.workdir, r.untracked)),
            be)

\* as OldestId, with the last listed commit taken for the oldest
OldestIdLast(commit_ids) == commit_ids[Len(commit_ids)]

\* the commit whose parent is the old side: commit_ids[0]
OldestId(commit_ids) == commit_ids[1]

\* commit_ids.last().unwrap()
NewestId(commit_ids) == commit_ids[Len(commit_ids)]

\* Oid::from_str and Repository::find_commit succeed
FindsCommit(r, id) == id \in WellFormedIds /\ id \in DOMAIN r.commits

\* the parent tree of the oldest commit, if it has a parent
OldTree(r, oldest_commit) ==
    IF Len(oldest_commit.parents) > 0
    THEN Some(r.commits[oldest_commit.parents[1]].tree)
    ELSE None

TreeToTree(old_tree, new_tree, be) ==
    IF DiffCallFails(be.fault) THEN Outcome(None, Err("Backend"), <<>>)
    ELSE ParseOutcome(
            DiffOf("tree_to_tree", old_tree, Some(new_tree),
                   diff_tree_to_tree(old_tree, Some(new_tree))),
            be)

get_commit_range_diff(r, commit_ids, be) ==
    IF commit_ids = <<>> THEN Outcome(None, Err("NoChanges"), <<>>)
    ELSE IF ~FindsCommit(r, OldestId(commit_ids)) \/ ~FindsCommit(r, NewestId(commit_ids))
    THEN Outcome(None, Err("Backend"), <<>>)
    ELSE TreeToTree(OldTree(r, r.commits[OldestId(commit_ids)]),
                    r.commits[NewestId(commit_ids)].tree, be)

\* ----------------------------------------------------------------- inputs

T_one == Tree(None, Some(B_one), None)
T_two == Tree(None, Some(B_two), Some(B_empty))
T_nonl == Tree(Some(B_one), Some(B_nonl), None)
T_crlf == Tree(Some(B_crlf), None, Some(B_one))
TreeInputs == {T_one, T_two, T_nonl}

\* the tokenizer's behaviours: where it cuts, and the lines it fails on
Tok0 == [cut |-> "head", fail |-> {}]
Toks == [cut : {"whole", "chars", "head"}, fail : {{}, {<<"b">>}}]

\* the backend's failures: none, or at a delta d (0: the call that makes the
\* Diff) once h hunks of it are done, before or after the highlighter is
\* asked about the next hunk
Faults ==
    {None} \cup { Some([d |-> d, h |-> h, late |-> l]) :
                    d \in 0..Len(PathOrder), h \in 0..1, l \in BOOLEAN }

Backends ==
    { [tok |-> t, fault |-> None] : t \in Toks }
    \cup { [tok |-> Tok0, fault |-> f] : f \in Faults }

RangeBackends ==
    { be \in Backends : be.tok.cut = "head" /\ (be.fault = None \/ be.fault[1].h = 0) }

WorkingTreeRepos ==
    { [head |-> h, workdir |-> w, untracked |-> u,
       commits |-> Commits(T_one, T_one, T_two, T_nonl)] :
        h \in {None} \cup { Some(t) : t \in TreeInputs },
        w \in TreeInputs \cup {T_crlf},
        u \in {{}, {P_notes}, {P_make, P_notes}} }

RangeRepos ==
    { [head |-> Some(T_nonl), workdir |-> T_nonl, untracked |-> {},
       commits |-> Commits(t1, t2, t3, T_nonl)] :
        t1 \in TreeInputs, t2 \in TreeInputs, t3 \in TreeInputs }

IdleRepo ==
    [head |-> Some(T_nonl), workdir |-> T_nonl, untracked |-> {},
     commits |-> Commits(T_one, T_one, T_two, T_nonl)]

\* hunks of backend diffs handed directly to parse_diff
H_add == BackendHunk(1, 1, MarkedLines(" ", << <<"a", LF>> >>)
                           \o MarkedLines("+", << <<"a", "b", CR, LF>> >>))
H_del == BackendHunk(7, 7, MarkedLines("-", << <<"b", LF>> >>)
                           \o MarkedLines(" ", << <<LF>> >>))
H_eof == BackendHunk(3, 3, MarkedLines("-", << <<"a", LF>> >>)
                           \o MarkedLines("+", << <<"a">> >>))
H_bad == BackendHunk(0, 1, MarkedLines("+", << <<BadByte, " ", LF>> >>))
HunkInputs == {H_add, H_del, H_eof, H_bad}

Text(p) == DiffFileSide(p, FALSE)
Binary(p) == DiffFileSide(p, TRUE)

\* one delta per backend status
StatusDeltas ==
    { BackendDelta(st, Text(Some(P_rs)), Text(Some(P_rs)), <<H_add>>) : st \in Deltas }

\* the paths of the two sides (at least one is present) and their binary flags;
\* a delta with a binary side has no hunks
SideDeltas ==
    { BackendDelta("Modified", DiffFileSide(o, ob), DiffFileSide(n, nb),
                   IF ob \/ nb THEN <<>> ELSE <<H_add>>) :
        o \in {None, Some(P_rs), Some(P_notes)},
        n \in {None, Some(P_rs), Some(P_make)},
        ob \in BOOLEAN, nb \in BOOLEAN }
    \ { d \in [status : {"Modified"}, old_file : [path : {None}, is_binary : BOOLEAN],
               new_file : [path : {None}, is_binary : BOOLEAN], hunks : {<<>>, <<H_add>>}] : TRUE }

HunkDeltas ==
    { BackendDelta("Modified", Text(Some(P_rs)), Text(Some(P_rs)), hs) :
        hs \in SeqsUpTo(HunkInputs, MaxHunks) }

CoreDeltas ==
    { BackendDelta("Renamed", Text(Some(P_notes)), Text(Some(P_rs)), <<H_add, H_del>>),
      BackendDelta("Added", Binary(Some(P_make)), Binary(Some(P_make)), <<>>),
      BackendDelta("Untracked", Text(Some(P_make)), Text(Some(P_make)), <<H_eof>>),
      BackendDelta("Modified", Text(Some(P_rs)), Text(Some(P_rs)), <<H_add>>) }

DiffInputs ==
    SeqsUpTo(CoreDeltas, MaxDeltas)
    \cup { <<d>> : d \in StatusDeltas \cup SideDeltas \cup HunkDeltas }

Call(op, commit_ids, deltas) == [op |-> op, commit_ids |-> commit_ids, deltas |-> deltas]

IdleOverlay == [spans |-> <<>>, origin |-> "Context", out |-> None]

\* ------------------------------------------- calculate_gap (git/context)

\* the start and count of a hunk on both sides, as the hunk header gives them
HunkMeta(old_start, old_count, new_start, new_count) ==
    [old_start |-> old_start, old_count |-> old_count,
     new_start |-> new_start, new_count |-> new_count]

\* size = end - start + 1, clamped non-negative
GapSize(start, end) == IF end - start + 1 < 0 THEN 0 ELSE end - start + 1

GapIntegrityError == [err |-> Some("GapIntegrityError"), range |-> None]

\* the old and new sizes are compared; a disagreement is reported
GapChecked(old_start, old_end, new_start, new_end) ==
    IF GapSize(old_start, old_end) # GapSize(new_start, new_end)
    THEN GapIntegrityError
    ELSE [err |-> None,
          range |-> Some([old_start |-> old_start, old_end |-> old_end,
                          new_start |-> new_start, new_end |-> new_end,
                          size |-> GapSize(old_start, old_end)])]

\* the gap starts on the line after the previous hunk, or on line 1 when prev
\* is None (the start of the file), and ends on the line before the next hunk
calculate_gap(prev, next) ==
    IF prev = None
    THEN GapChecked(1, next.old_start - 1, 1, next.new_start - 1)
    ELSE GapChecked(prev[1].old_start + prev[1].old_count, next.old_start - 1,
                    prev[1].new_start + prev[1].new_count, next.new_start - 1)

IdleGap == [prev |-> None, next |-> HunkMeta(1, 0, 1, 0), out |-> None]

\* ------------------------------------------------ the comment anchors

LineRange(start, end) == [start |-> start, end |-> end]

\* a range's start exceeds its end, or a bound is not positive
InvalidRange(range) ==
    range # None /\ (range[1].start > range[1].end \/ range[1].start <= 0 \/ range[1].end <= 0)

CommentAnchor(file, side, range, kind, content) ==
    [file |-> file, side |-> side, range |-> range, kind |-> kind, content |-> content]

\* the files of the diff whose identity (new path, else old path) is the path
FilesOf(tree, path) ==
    { i \in 1..Len(tree) : FilePath(tree[i].old_path, tree[i].new_path) = Some(path) }

\* the lines of a file, as <<hunk, line>>, that have a number on the side and
\* whose number is in the range
LinesOf(file, side, range) ==
    { hl \in UNION { { <<h, l>> : l \in 1..Len(file.hunks[h].lines) } :
                       h \in 1..Len(file.hunks) } :
        IF side = "Old"
        THEN /\ file.hunks[hl[1]].lines[hl[2]].old_lineno # None
             /\ file.hunks[hl[1]].lines[hl[2]].old_lineno[1] >= range.start
             /\ file.hunks[hl[1]].lines[hl[2]].old_lineno[1] <= range.end
        ELSE /\ file.hunks[hl[1]].lines[hl[2]].new_lineno # None
             /\ file.hunks[hl[1]].lines[hl[2]].new_lineno[1] >= range.start
             /\ file.hunks[hl[1]].lines[hl[2]].new_lineno[1] <= range.end }

Unresolved == [tag |-> "Unresolved", file |-> 0, lines |-> {}]

\* an anchor in a file of the diff: the file for a range-less anchor, else the
\* lines that match exactly, and Unresolved when none does
ResolveIn(anchor, tree, file_idx) ==
    IF anchor.range = None
    THEN [tag |-> "Resolved", file |-> file_idx, lines |-> {}]
    ELSE IF LinesOf(tree[file_idx], anchor.side, anchor.range[1]) = {}
         THEN Unresolved
         ELSE [tag |-> "Resolved", file |-> file_idx,
               lines |-> LinesOf(tree[file_idx], anchor.side, anchor.range[1])]

ResolveAnchor(anchor, tree) ==
    IF FilesOf(tree, anchor.file) = {}
    THEN Unresolved
    ELSE ResolveIn(anchor, tree, CHOOSE i \in FilesOf(tree, anchor.file) :
                                     \A j \in FilesOf(tree, anchor.file) : i <= j)

\* resolve(handle, currentDiff)
resolve(anchors, handle, tree) ==
    IF handle \in DOMAIN anchors THEN ResolveAnchor(anchors[handle], tree) ELSE Unresolved

\* as Retained, with the anchors that no longer resolve dropped
RetainedResolvable(anchors, tree) ==
    [h \in { g \in DOMAIN anchors : resolve(anchors, g, tree) # Unresolved } |-> anchors[h]]

\* the anchors after a rebuild of the diff: all of them, resolved or not
Retained(anchors, tree) == anchors

Without(anchors, handle) == [h \in DOMAIN anchors \ {handle} |-> anchors[h]]

\* create: InvalidRange before any mutation, else a new handle
create(s, file, side, range, kind, content) ==
    IF InvalidRange(range)
    THEN [s EXCEPT !.last = "InvalidRange"]
    ELSE [s EXCEPT
            !.anchors = [h \in DOMAIN s.anchors \cup {s.next_handle} |->
                           IF h = s.next_handle
                           THEN CommentAnchor(file, side, range, kind, content)
                           ELSE s.anchors[h]],
            !.next_handle = s.next_handle + 1,
            !.last = "Ok"]

\* edit: the content changes, the anchor keeps its handle and its place
edit(s, handle, content) ==
    [s EXCEPT !.anchors = [s.anchors EXCEPT ![handle].content = content], !.last = "Ok"]

\* delete: the anchor leaves the collection
delete(s, handle) ==
    [s EXCEPT !.anchors = Without(s.anchors, handle),
              !.deleted = s.deleted \cup {handle},
              !.last = "Ok"]

\* a rebuild replaces the diff tree; the anchors persist across it
rebuild(s, parsed) ==
    [s EXCEPT !.tree = parsed.files, !.anchors = Retained(s.anchors, parsed.files),
              !.last = "Ok"]

\* a session before any comment or diff: the anchors by handle, the next handle,
\* the handles deleted so far, the live diff tree and the last outcome
IdleSession ==
    [anchors |-> <<>>, next_handle |-> 1, deleted |-> {}, tree |-> <<>>, last |-> "Ok"]

\* ------------------------------- the comment input (ui/comment_panel.rs)

\* the two bytes of a two-byte character of the buffer
Lead == "0xC3"
Cont == "0xA9"

\* str::is_char_boundary: the start, the end, or not before a continuation byte
is_char_boundary(text, idx) ==
    idx = 0 \/ idx = Len(text) \/ (idx < Len(text) /\ text[idx + 1] # Cont)

RECURSIVE split(_, _)
\* str::split: the pieces between the separators, one more than the separators
split(text, sep) ==
    IF \A i \in 1..Len(text) : text[i] # sep
    THEN <<text>>
    ELSE << SubSeq(text, 1, (CHOOSE i \in 1..Len(text) :
                               text[i] = sep /\ \A j \in 1..(i - 1) : text[j] # sep) - 1) >>
         \o split(SubSeq(text, (CHOOSE i \in 1..Len(text) :
                                  text[i] = sep /\ \A j \in 1..(i - 1) : text[j] # sep) + 1,
                         Len(text)), sep)

\* the length in bytes of the first character of a text
len_utf8(text) == IF text[1] = Lead THEN 2 ELSE 1

\* a span with style "raw" (Span::raw), "cursor" (cursor_style) or "dim"
Span(content, style) == [content |-> content, style |-> style]

\* as cursor_on_this_line, with the end of the line left out of its range
cursor_on_this_line_excl(comment_cursor, line_start, line_end, line_idx, n_lines, buffer_len) ==
    /\ comment_cursor >= line_start
    /\ \/ comment_cursor < line_end
       \/ (line_idx = n_lines /\ comment_cursor = buffer_len)

\* line_idx counts from 1, so the last line is the one at n_lines
cursor_on_this_line(comment_cursor, line_start, line_end, line_idx, n_lines, buffer_len) ==
    /\ comment_cursor >= line_start
    /\ \/ comment_cursor <= line_end
       \/ (line_idx = n_lines /\ comment_cursor = buffer_len)

\* the line with the cursor, from the two halves of split_at: a trailing space
\* for a cursor at the end of the line, else the character under the cursor
CursorLine(before_cursor, after_cursor) ==
    IF after_cursor = <<>>
    THEN << Span(before_cursor, "raw"), Span(<<" ">>, "cursor") >>
    ELSE << Span(before_cursor, "raw"),
            Span(SubSeq(after_cursor, 1, len_utf8(after_cursor)), "cursor"),
            Span(SubSeq(after_cursor, len_utf8(after_cursor) + 1, Len(after_cursor)), "raw") >>

\* text.split_at(cursor_pos_in_line.min(text.len()))
SplitAtCursor(text, cursor_pos_in_line) ==
    IF cursor_pos_in_line <= Len(text)
    THEN CursorLine(SubSeq(text, 1, cursor_pos_in_line),
                    SubSeq(text, cursor_pos_in_line + 1, Len(text)))
    ELSE CursorLine(text, <<>>)

\* the body of the loop over the buffer lines
RenderLine(text, comment_cursor, line_start, line_end, line_idx, n_lines, buffer_len) ==
    IF cursor_on_this_line(comment_cursor, line_start, line_end, line_idx, n_lines, buffer_len)
    THEN SplitAtCursor(text, comment_cursor - line_start)
    ELSE << Span(text, "raw") >>

RECURSIVE RenderLines(_, _, _, _, _)
\* the loop from line_idx on; char_offset moves past each line and its newline
RenderLines(buffer_lines, line_idx, char_offset, comment_cursor, buffer_len) ==
    IF line_idx > Len(buffer_lines)
    THEN <<>>
    ELSE << RenderLine(buffer_lines[line_idx], comment_cursor, char_offset,
                       char_offset + Len(buffer_lines[line_idx]),
                       line_idx, Len(buffer_lines), buffer_len) >>
         \o RenderLines(buffer_lines, line_idx + 1,
                        char_offset + Len(buffer_lines[line_idx]) + 1,
                        comment_cursor, buffer_len)

\* the lines render_comment_input pushes for the buffer, after its header lines
render_comment_input(comment_buffer, comment_cursor) ==
    IF comment_buffer = <<>>
    THEN << << Span(<<" ">>, "cursor"), Span(<<"Type your comment...">>, "dim") >> >>
    ELSE RenderLines(split(comment_buffer, LF), 1, 0, comment_cursor, Len(comment_buffer))

IdlePanel == [comment_buffer |-> <<>>, comment_cursor |-> 0, lines |-> None]

\* ------------------------------------------------------ the state machine

Init ==
    /\ \/ /\ repo \in WorkingTreeRepos
          /\ call = Call("working_tree", <<>>, <<>>)
          /\ backend \in Backends
       \/ /\ repo \in RangeRepos
          /\ call \in { Call("commit_range", ids, <<>>) : ids \in SeqsUpTo(IdArgs, MaxIds) }
          /\ backend \in RangeBackends
       \/ /\ repo = IdleRepo
          /\ call \in { Call("parse_diff", <<>>, d) : d \in DiffInputs }
          /\ backend \in { be \in Backends : ~DiffCallFails(be.fault) }
    /\ diff = None
    /\ result = Pending
    /\ hl_calls = <<>>
    /\ overlay = IdleOverlay
    /\ gap = IdleGap
    /\ session = IdleSession
    /\ panel = IdlePanel

Return(out) ==
    /\ diff' = out.diff
    /\ result' = out.result
    /\ hl_calls' = out.calls
    /\ UNCHANGED <<repo, call, backend, overlay, gap, session, panel>>

GetWorkingTreeDiff ==
    /\ call.op = "working_tree"
    /\ result = Pending
    /\ Return(get_working_tree_diff(repo, backend))

GetCommitRangeDiff ==
    /\ call.op = "commit_range"
    /\ result = Pending
    /\ Return(get_commit_range_diff(repo, call.commit_ids, backend))

\* parse_diff on a Diff the caller made, as the repository's test does
ParseDiff ==
    /\ call.op = "parse_diff"
    /\ result = Pending
    /\ Return(ParseOutcome(DiffOf("given", None, None, call.deltas), backend))

Next == GetWorkingTreeDiff \/ GetCommitRangeDiff \/ ParseDiff

Spec == Init /\ [][Next]_vars

\* --------------------------------------- apply_diff_background on its own

Origins == {"Addition", "Deletion", "Context"}

StyleInputs ==
    [fg : {None, Some(Rgb(211, 208, 200))},
     bg : {None, Some(add_bg), Some(Rgb(9, 9, 9))},
     add_modifier : {{}, {"BOLD"}},
     sub_modifier : {{}}]

SpanInputs == [style : StyleInputs, text : {<<"a">>, <<"a", " ">>}]

InitOverlay ==
    /\ repo = IdleRepo
    /\ call = Call("overlay", <<>>, <<>>)
    /\ backend = [tok |-> Tok0, fault |-> None]
    /\ diff = None
    /\ result = Pending
    /\ hl_calls = <<>>
    /\ overlay \in [spans : SeqsUpTo(SpanInputs, MaxSpans), origin : Origins, out : {None}]
    /\ gap = IdleGap
    /\ session = IdleSession
    /\ panel = IdlePanel

ApplyDiffBackground ==
    /\ call.op = "overlay"
    /\ overlay.out = None
    /\ overlay' = [overlay EXCEPT
                     !.out = Some(apply_diff_background(overlay.spans, overlay.origin))]
    /\ UNCHANGED <<repo, call, backend, diff, result, hl_calls, gap, session, panel>>

NextOverlay == ApplyDiffBackground

SpecOverlay == InitOverlay /\ [][NextOverlay]_vars

\* ----------------------------------------------- calculate_gap on its own

IdleDiff(op) ==
    /\ repo = IdleRepo
    /\ call = Call(op, <<>>, <<>>)
    /\ backend = [tok |-> Tok0, fault |-> None]
    /\ diff = None
    /\ result = Pending
    /\ hl_calls = <<>>
    /\ overlay = IdleOverlay

\* the previous hunk, if any, is at line 1 or 10 and five lines long or empty
\* on a side; the next hunk is after it, touches it or starts inside it
InitGap ==
    /\ IdleDiff("calculate_gap")
    /\ gap \in [prev : {None} \cup
                       { Some(HunkMeta(os, oc, ns, nc)) :
                           os \in {1, 10}, oc \in {0, 5}, ns \in {1, 10, 12}, nc \in {0, 5, 7} },
                next : { HunkMeta(os, 3, ns, 3) :
                           os \in {12, 15, 30}, ns \in {12, 15, 30, 32} },
                out : {None}]
    /\ session = IdleSession
    /\ panel = IdlePanel

CalculateGap ==
    /\ call.op = "calculate_gap"
    /\ gap.out = None
    /\ gap' = [gap EXCEPT !.out = Some(calculate_gap(gap.prev, gap.next))]
    /\ UNCHANGED <<repo, call, backend, diff, result, hl_calls, overlay, session, panel>>

SpecGap == InitGap /\ [][CalculateGap]_vars

\* --------------------------------------------- the comment anchor session

\* no range, lines 1 to 2, line 3 alone, and two ranges create rejects
AnchorRanges ==
    {None, Some(LineRange(1, 2)), Some(LineRange(3, 3)),
     Some(LineRange(5, 3)), Some(LineRange(0, 1))}

\* the diffs a rebuild can give: both files, either one alone, or no change
SessionDeltas ==
    { << BackendDelta("Renamed", Text(Some(P_notes)), Text(Some(P_rs)), <<H_add, H_del>>),
         BackendDelta("Untracked", Text(Some(P_make)), Text(Some(P_make)), <<H_eof>>) >>,
      << BackendDelta("Modified", Text(Some(P_rs)), Text(Some(P_rs)), <<H_add>>) >>,
      << BackendDelta("Untracked", Text(Some(P_make)), Text(Some(P_make)), <<H_eof>>) >>,
      <<>> }

\* what parse_diff returns for each of them
SessionDiffs == { parse_diff(deltas, Tok0, None).result : deltas \in SessionDeltas }

InitSession ==
    /\ IdleDiff("session")
    /\ gap = IdleGap
    /\ session = IdleSession
    /\ panel = IdlePanel

SessionStep(s) ==
    /\ call.op = "session"
    /\ session' = s
    /\ UNCHANGED <<repo, call, backend, diff, result, hl_calls, overlay, gap, panel>>

Create ==
    /\ session.next_handle <= MaxAnchors
    /\ \E file \in {P_rs, P_make}, side \in {"Old", "New"}, range \in AnchorRanges,
          kind \in {"Note", "Issue"} :
          SessionStep(create(session, file, side, range, kind, <<"x">>))

Edit ==
    \E handle \in DOMAIN session.anchors, content \in {<<"x">>, <<"y">>} :
        SessionStep(edit(session, handle, content))

Delete ==
    \E handle \in DOMAIN session.anchors : SessionStep(delete(session, handle))

Rebuild ==
    \E parsed \in SessionDiffs : SessionStep(rebuild(session, parsed))

NextSession == Create \/ Edit \/ Delete \/ Rebuild

SpecSession == InitSession /\ [][NextSession]_vars

\* ------------------------------------------ render_comment_input on its own

\* the buffer holds characters typed: a letter, a newline, a two-byte letter;
\* the cursor is a byte offset of the buffer: on a character boundary when it
\* is inside the buffer, as the String operations that move it require, or
\* past the end
InitPanel ==
    /\ IdleDiff("render_comment_input")
    /\ gap = IdleGap
    /\ session = IdleSession
    /\ \E cs \in SeqsUpTo({ <<"a">>, <<LF>>, <<Lead, Cont>> }, MaxChars) :
          panel \in [comment_buffer : {Flatten(cs)},
                     comment_cursor :
                         { c \in 0..(Len(Flatten(cs)) + MaxPast) :
                             c > Len(Flatten(cs)) \/ is_char_boundary(Flatten(cs), c) },
                     lines : {None}]

RenderCommentInput ==
    /\ call.op = "render_comment_input"
    /\ panel.lines = None
    /\ panel' = [panel EXCEPT
                   !.lines = Some(render_comment_input(panel.comment_buffer, panel.comment_cursor))]
    /\ UNCHANGED <<repo, call, backend, diff, result, hl_calls, overlay, gap, session>>

SpecPanel == InitPanel /\ [][RenderCommentInput]_vars

\* ------------------------------------------------------------ the claims

\* parse_diff was reached and has returned
ParseDiffReturned == diff # None /\ result # Pending
BackendDeltas == diff[1].deltas
Built == ParseDiffReturned /\ result.tag = "Ok"
Files == result.files

\* the hunks of the built files, as (file index, hunk index)
BuiltHunks ==
    UNION { { <<i, h>> : h \in 1..Len(Files[i].hunks) } : i \in 1..Len(Files) }
HunkAt(fh) == Files[fh[1]].hunks[fh[2]]

\* the origins of the lines of a DiffHunk, in order
OriginsOf(hunk) == [l \in 1..Len(hunk.lines) |-> hunk.lines[l].origin]
\* the contents of the lines of a DiffHunk, in order
ContentsOf(hunk) == [l \in 1..Len(hunk.lines) |-> hunk.lines[l].content]

\* the texts of a span sequence, concatenated
ConcatTexts(spans) == Flatten([k \in 1..Len(spans) |-> spans[k].text])

\* C1: parse_diff returns NoChanges exactly when the backend diff has no
\* delta; with at least one delta and no failing backend call it returns Ok
\* with a non-empty file list.
C1_NoChangesIffNoDeltas ==
    ParseDiffReturned =>
        /\ (result = Err("NoChanges")) <=> (Len(BackendDeltas) = 0)
        /\ (Len(BackendDeltas) >= 1 /\ backend.fault = None) =>
                (result.tag = "Ok" /\ Len(result.files) >= 1)

\* a clean working tree: the diff has no delta and NoChanges came back
C1_Witness ==
    /\ call.op = "working_tree"
    /\ ParseDiffReturned
    /\ BackendDeltas = <<>>
    /\ result = Err("NoChanges")

\* C2: in every DiffHunk old_count is the number of Deletion and Context
\* lines and new_count the number of Addition and Context lines.
C2_CountsMatchLines ==
    Built =>
        \A fh \in BuiltHunks :
            /\ HunkAt(fh).old_count = CountIn(OriginsOf(HunkAt(fh)), {"Deletion", "Context"})
            /\ HunkAt(fh).new_count = CountIn(OriginsOf(HunkAt(fh)), {"Addition", "Context"})

\* C3: every DiffLine has an old line number unless it is an Addition and a
\* new line number unless it is a Deletion.
C3_LineNumbersPresent ==
    Built =>
        \A fh \in BuiltHunks : \A l \in 1..Len(HunkAt(fh).lines) :
            /\ HunkAt(fh).lines[l].origin # "Addition" => HunkAt(fh).lines[l].old_lineno # None
            /\ HunkAt(fh).lines[l].origin # "Deletion" => HunkAt(fh).lines[l].new_lineno # None

C5_EmptyIffBinary ==
    Built => \A i \in 1..Len(Files) : (Files[i].hunks = <<>>) <=> Files[i].is_binary

\* C5, amended: a file's binary flag is set exactly when the backend flags
\* either side binary, and then its hunk sequence is empty.
C5_BinaryHasNoHunks ==
    Built =>
        \A i \in 1..Len(Files) :
            /\ Files[i].is_binary <=>
                  (BackendDeltas[i].old_file.is_binary \/ BackendDeltas[i].new_file.is_binary)
            /\ (BackendDeltas[i].old_file.is_binary \/ BackendDeltas[i].new_file.is_binary)
                  => Files[i].hunks = <<>>

\* a file with one binary side only was built, binary and without hunks
C5_Witness ==
    /\ Built
    /\ \E i \in 1..Len(Files) :
          /\ BackendDeltas[i].old_file.is_binary # BackendDeltas[i].new_file.is_binary
          /\ Files[i].is_binary
          /\ Files[i].hunks = <<>>

\* the path a file is highlighted under: the new path if present, else the old
KeyOf(file) == IF file.new_path # None THEN file.new_path[1] ELSE file.old_path[1]

\* the highlighter invocations of the build, without their answers
CallsMade == [c \in 1..Len(hl_calls) |->
                [file_path |-> hl_calls[c].file_path, lines |-> hl_calls[c].lines]]

HasGrammar(p) == p \in {P_rs, P_make}

\* the tokenizer fails on a line of the hunk
FailsIn(hunk) == \E l \in 1..Len(hunk.lines) : hunk.lines[l].content \in backend.tok.fail

Unhighlighted(hunk) ==
    \A l \in 1..Len(hunk.lines) : hunk.lines[l].highlighted_spans = None
Highlighted(hunk) ==
    \A l \in 1..Len(hunk.lines) : hunk.lines[l].highlighted_spans # None

C8_SpansConcatToLine ==
    /\ \A c \in 1..Len(hl_calls) :
          hl_calls[c].ret # None =>
             /\ Len(hl_calls[c].ret[1]) = Len(hl_calls[c].lines)
             /\ \A l \in 1..Len(hl_calls[c].lines) :
                   ConcatTexts(hl_calls[c].ret[1][l]) = hl_calls[c].lines[l]
    /\ Built =>
          \A fh \in BuiltHunks : \A l \in 1..Len(HunkAt(fh).lines) :
             HunkAt(fh).lines[l].highlighted_spans # None =>
                ConcatTexts(HunkAt(fh).lines[l].highlighted_spans[1])
                    = HunkAt(fh).lines[l].content

\* a hunk was built with two lines of different content, one of them cut
\* into several spans
C8_Witness ==
    /\ Built
    /\ \E fh \in BuiltHunks : \E l, m \in 1..Len(HunkAt(fh).lines) :
          /\ HunkAt(fh).lines[l].content # HunkAt(fh).lines[m].content
          /\ HunkAt(fh).lines[l].highlighted_spans # None
          /\ Len(HunkAt(fh).lines[l].highlighted_spans[1]) >= 2
          /\ HunkAt(fh).lines[m].highlighted_spans # None

\* C9: apply_diff_background keeps the number of spans, their texts and
\* every style attribute but the background; for Addition every background
\* becomes the add colour, for Deletion the delete colour, and for Context
\* the sequence comes back unchanged.
C9_OverlayOnlyBackground ==
    overlay.out # None =>
        /\ Len(overlay.out[1]) = Len(overlay.spans)
        /\ \A k \in 1..Len(overlay.spans) :
              /\ overlay.out[1][k].text = overlay.spans[k].text
              /\ overlay.out[1][k].style.fg = overlay.spans[k].style.fg
              /\ overlay.out[1][k].style.add_modifier = overlay.spans[k].style.add_modifier
              /\ overlay.out[1][k].style.sub_modifier = overlay.spans[k].style.sub_modifier
              /\ overlay.origin = "Addition" => overlay.out[1][k].style.bg = Some(<<0, 35, 12>>)
              /\ overlay.origin = "Deletion" => overlay.out[1][k].style.bg = Some(<<45, 0, 0>>)
        /\ overlay.origin = "Context" => overlay.out[1] = overlay.spans

\* a Context sequence of two spans, one with a background of its own, went
\* through the overlay
C9_Witness ==
    /\ overlay.out # None
    /\ overlay.origin = "Context"
    /\ Len(overlay.spans) = 2
    /\ overlay.spans[1].style.bg # None
    /\ overlay.spans[2].style.bg = None

\* the status table of the claim
C10_Table(delta_status) ==
    CASE delta_status = "Added" -> "Added"
      [] delta_status = "Untracked" -> "Added"
      [] delta_status = "Deleted" -> "Deleted"
      [] delta_status = "Modified" -> "Modified"
      [] delta_status = "Renamed" -> "Renamed"
      [] delta_status = "Copied" -> "Copied"
      [] delta_status \in {"Unmodified", "Ignored", "Typechange", "Unreadable", "Conflicted"}
            -> "Modified"

\* C10: the status of a DiffFile is a total function of the backend status:
\* Added and Untracked give Added, Deleted, Modified, Renamed and Copied
\* give themselves, every other status gives Modified; no status makes the
\* build fail.
C10_StatusTotal ==
    /\ Built =>
          /\ Len(Files) = Len(BackendDeltas)
          /\ \A i \in 1..Len(Files) : Files[i].status = C10_Table(BackendDeltas[i].status)
    /\ (ParseDiffReturned /\ backend.fault = None /\ BackendDeltas # <<>>) => result.tag = "Ok"

\* an untracked file of the working tree was built as Added
C10_Witness ==
    /\ call.op = "working_tree"
    /\ Built
    /\ \E i \in 1..Len(Files) :
          BackendDeltas[i].status = "Untracked" /\ Files[i].status = "Added"

\* ---- C11

GapComputed == gap.out # None /\ gap.prev # None
GapResult == gap.out[1]
PrevHunk == gap.prev[1]
OldGapStart == PrevHunk.old_start + PrevHunk.old_count
OldGapEnd == gap.next.old_start - 1
NewGapStart == PrevHunk.new_start + PrevHunk.new_count
NewGapEnd == gap.next.new_start - 1

\* adjacent hunks overlap when the next one starts before the previous ends
Overlapping == OldGapEnd - OldGapStart + 1 < 0 \/ NewGapEnd - NewGapStart + 1 < 0

\* the two sides of the gap disagree about its size
Malformed == OldGapEnd - OldGapStart + 1 # NewGapEnd - NewGapStart + 1

\* C11: the gap between two consecutive hunks spans the old lines from
\* (previous old_start + old_count) to (next old_start - 1), its size is
\* end - start + 1 and never negative, and overlapping or malformed hunk
\* metadata yields GapIntegrityError instead of a truncated size
C11_GapOrIntegrityError ==
    GapComputed =>
        IF Overlapping \/ Malformed
        THEN GapResult = GapIntegrityError
        ELSE /\ GapResult.err = None
             /\ GapResult.range[1].old_start = OldGapStart
             /\ GapResult.range[1].old_end = OldGapEnd
             /\ GapResult.range[1].size = OldGapEnd - OldGapStart + 1
             /\ GapResult.range[1].size >= 0

\* ---- C12

Anchors == session.anchors
CurrentDiff == session.tree

\* no file of the current diff has the path on either side
FileAbsent(path) ==
    \A i \in 1..Len(CurrentDiff) : CurrentDiff[i].old_path # Some(path) /\ CurrentDiff[i].new_path # Some(path)

\* C12: after any sequence of create, edit and delete operations and diff
\* rebuilds, an anchor whose file is absent from the current diff resolves to
\* Unresolved; every handle given out and not explicitly deleted is still in
\* the collection; and every other anchor resolves as it would if the absent
\* anchor did not exist
C12_AbsentFileUnresolvedAndRetained ==
    /\ \A h \in 1..(session.next_handle - 1) : h \in DOMAIN Anchors \/ h \in session.deleted
    /\ \A h \in DOMAIN Anchors :
          FileAbsent(Anchors[h].file) =>
            /\ resolve(Anchors, h, CurrentDiff) = Unresolved
            /\ \A g \in DOMAIN Anchors \ {h} :
                  resolve(Anchors, g, CurrentDiff) = resolve(Without(Anchors, h), g, CurrentDiff)

\* a rebuild has removed the file of one anchor while another anchor resolves
C12_Witness ==
    /\ CurrentDiff # <<>>
    /\ \E h \in DOMAIN Anchors, g \in DOMAIN Anchors :
          /\ FileAbsent(Anchors[h].file)
          /\ Anchors[h].range # None
          /\ resolve(Anchors, h, CurrentDiff) = Unresolved
          /\ resolve(Anchors, g, CurrentDiff).tag = "Resolved"
          /\ resolve(Anchors, g, CurrentDiff).lines # {}

\* ---- C13

PanelRendered == panel.lines # None
RenderedLines == panel.lines[1]
Buffer == panel.comment_buffer
Cursor == panel.comment_cursor

\* the positions of the newlines of the buffer
Newlines == { i \in 1..Len(Buffer) : Buffer[i] = LF }

\* the offset at which the k-th line of the buffer starts: 0, or the offset
\* after the (k-1)-th newline
StartOfLine(k) ==
    IF k = 1 THEN 0
    ELSE CHOOSE i \in Newlines : Cardinality({ j \in Newlines : j < i }) = k - 2

\* the offset at which the k-th line ends: that of its newline, or of the end
\* of the buffer for the last line
EndOfLine(k) ==
    IF k = Cardinality(Newlines) + 1 THEN Len(Buffer)
    ELSE (CHOOSE i \in Newlines : Cardinality({ j \in Newlines : j < i }) = k - 1) - 1

CarriesCursor(line) == \E i \in 1..Len(line) : line[i].style = "cursor"

====
